---- MODULE Spec2Model ----
(***************************************************************************)
(* Model of luna's code generator, src/src/Visitor.cpp: the NameScope      *)
(* chain over the flat ScopeNameList, and the CodeGenerateVisitor handlers *)
(* that lower Chunk, Block, LocalNameListStatement, NameList, Terminator,  *)
(* NormalFuncCall and ExpressionList into the instructions of a Function.  *)
(*                                                                         *)
(* Pointers are natural numbers, NULL is 0.  A NameScope lives on the C++  *)
(* stack of the handler that declares it, so the live scopes form the      *)
(* sequence scopes and a scope's address is its index.  The recursion of   *)
(* Accept/Visit is the sequence stack of handler frames; the syntax tree   *)
(* is chosen node by node as the walk reaches it.  Source lines of tokens  *)
(* are not modelled.                                                       *)
(***************************************************************************)
EXTENDS Integers, Sequences, FiniteSets, TLC

\* ---------------------------------------------------------------- bounds
\* The visitor: the walk is given syntax trees of at most MaxNodes nodes
\* (chunks, statements, names and expressions).
MaxNodes == 7
\* NameScope used on its own: owners, live scopes, table entries, registers.
MaxOwners == 2
MaxScopes == 3
MaxTable == 3
MaxReg == 1

NULL == 0

Names == {"a", "b"}
OwnerPtrs == 1..MaxOwners

Token_Number == "Token_Number"
Token_String == "Token_String"
Token_Id == "Token_Id"

\* The terminator tokens the walk draws from: a number, a string, and an
\* identifier (a token kind Visit(Terminator *) does not handle).
TermTokens ==
    { [token_ |-> Token_Number, value |-> "1"],
      [token_ |-> Token_String, value |-> "s"],
      [token_ |-> Token_Id, value |-> "f"] }

\* An expression node is a Terminator (its token) or a NormalFuncCall, whose
\* caller and arguments are chosen when the walk enters it.
CallExp == [token_ |-> "NormalFuncCall", value |-> ""]
Exps == TermTokens \cup {CallExp}

\* Sequences over S of length lo..hi.
SeqsOf(S, lo, hi) == UNION { [1..n -> S] : n \in lo..hi }

OpType_LoadConst == "LoadConst"
OpType_Move == "Move"
OpType_SetTop == "SetTop"
OpType_Call == "Call"

VARIABLES
    name_list_,       \* ScopeNameList::name_list_ : Seq of ScopeName
    current_scope_,   \* ScopeNameList::current_scope_ : scope address or NULL
    scopes,           \* the live NameScope objects, innermost last
    funcs,            \* the Function objects State::NewFunction has made
    func_,            \* CodeGenerateVisitor::func_
    names_register_,  \* CodeGenerateVisitor::names_register_
    stack,            \* the active Visit calls, innermost last
    ndebug,           \* whether the build defines NDEBUG (assert is a no-op)
    aborted,          \* a failed assert has ended the process
    nodes,            \* how many syntax tree nodes the walk has been given
    last,             \* the last direct NameScope call and what it returned
    open_len          \* history: name_list_.size() just before each live
                      \* scope was constructed

vars == << name_list_, current_scope_, scopes, funcs, func_, names_register_,
           stack, ndebug, aborted, nodes, last, open_len >>

visitVars == << funcs, func_, names_register_, stack, ndebug, aborted, nodes >>

\* ------------------------------------------------------------ NameScope
ScopeName(name, reg) == [name_ |-> name, register_ |-> reg]

\* std::vector::resize: truncates, or pads with ScopeName().
Resize(list, n) ==
    IF n <= Len(list)
    THEN SubSeq(list, 1, n)
    ELSE list \o [i \in 1..(n - Len(list)) |-> ScopeName("", 0)]

\* NameScope::NameScope: the scope object the constructor builds.
NewScope(list, cur, scs, owner) ==
    [previous_ |-> cur,
     start_ |-> Len(list),
     owner_ |-> IF owner # NULL THEN owner ELSE scs[cur].owner_]

\* The indexes i (0-based, as in the code) IsBelongsToScope's loop visits
\* that hold name: start_ <= i < name_list_.size().
ScopeMatchesFirstOnly(list, s, name) ==
    { i \in s.start_..(s.start_) : i < Len(list) /\ list[i + 1].name_ = name }

ScopeMatches(list, s, name) ==
    { i \in s.start_..(Len(list) - 1) : list[i + 1].name_ = name }

\* NameScope::IsBelongsToScope: the bool it returns.
IsBelongsToScope(list, s, name) == ScopeMatches(list, s, name) # {}

\* NameScope::IsBelongsToScope: the register it stores in *reg (the first
\* match), reg itself when there is no match.
IsBelongsToScopeReg(list, s, name, reg) ==
    IF ScopeMatches(list, s, name) = {}
    THEN reg
    ELSE LET first == CHOOSE i \in ScopeMatches(list, s, name) :
                        \A j \in ScopeMatches(list, s, name) : i <= j
         IN list[first + 1].register_

\* NameScope::AddScopeName: the bool, the register left in *reg, the table.
AddScopeNameAlways(list, s, name, reg) ==
    [ok |-> TRUE, reg |-> reg, list |-> Append(list, ScopeName(name, reg))]

AddScopeNameNoShadow(list, s, name, reg) ==
    LET whole == [s EXCEPT !.start_ = 0]
    IN  IF ~IsBelongsToScope(list, whole, name)
        THEN [ok |-> TRUE, reg |-> reg,
              list |-> Append(list, ScopeName(name, reg))]
        ELSE [ok |-> FALSE, reg |-> IsBelongsToScopeReg(list, whole, name, reg),
              list |-> list]

AddScopeName(list, s, name, reg) ==
    IF ~IsBelongsToScope(list, s, name)
    THEN [ok |-> TRUE, reg |-> reg,
          list |-> Append(list, ScopeName(name, reg))]
    ELSE [ok |-> FALSE, reg |-> IsBelongsToScopeReg(list, s, name, reg),
          list |-> list]

\* NameScope::GetBlongsToScope: the address of the scope found (NULL when
\* the walk runs off the chain), starting at scope address cur.
RECURSIVE FindScope(_, _, _, _)
FindScope(list, scs, cur, name) ==
    IF cur = NULL THEN NULL
    ELSE IF IsBelongsToScope(list, scs[cur], name) THEN cur
    ELSE FindScope(list, scs, scs[cur].previous_, name)

GetBlongsToScopeInnerOwner(list, scs, cur, name) ==
    LET found == FindScope(list, scs, cur, name)
    IN  [scope |-> found,
         func |-> IF found # NULL THEN scs[cur].owner_ ELSE NULL]

GetBlongsToScope(list, scs, cur, name) ==
    LET found == FindScope(list, scs, cur, name)
    IN  [scope |-> found,
         func |-> IF found # NULL THEN scs[found].owner_ ELSE NULL]

\* NameScope::~NameScope on the innermost live scope: the table it leaves.
DestroyKeepNames(list, s) == list

DestroyScope(list, s) == Resize(list, s.start_)

\* ------------------------------------------------------------- Function
\* Function.h and State.h are not part of the sources at hand; the Function
\* operations the visitor calls are modelled from the specification's
\* Function Context (next_register, register_high_water_mark, constants,
\* instructions, superior).

\* Instruction::ACode and Instruction::ABCode.
ACode(op, a) == [op |-> op, a |-> a, b |-> 0]
ABCode(op, a, b) == [op |-> op, a |-> a, b |-> b]

\* State::NewFunction.
NewFunction ==
    [next_register |-> 0, register_count |-> 0, constants |-> << >>,
     instructions |-> << >>, superior |-> NULL]

SetSuperior(f, sup) == [f EXCEPT !.superior = sup]

GetNextRegister(f) == f.next_register

Max(x, y) == IF x >= y THEN x ELSE y

\* Function::AllocaNextRegister: hands out next_register, advances it, and
\* raises the high-water mark to cover it.
AllocaNextRegister(f) ==
    [f EXCEPT !.next_register = @ + 1,
              !.register_count = Max(@, f.next_register + 1)]

\* Function::SetNextRegister: moves the stack-top cursor only.
SetNextRegister(f, r) == [f EXCEPT !.next_register = r]

GetRegisterCount(f) == f.register_count

\* Function::SetRegisterCount: stores the count it is given.
SetRegisterCount(f, c) == [f EXCEPT !.register_count = c]

AddInstruction(f, ins) == [f EXCEPT !.instructions = Append(@, ins)]

\* Function::AddConstNumber / AddConstString: the 0-based index of the
\* literal in the pool, and the pool, which gains the literal when new.
ConstIndex(f, v) ==
    IF \E k \in 1..Len(f.constants) : f.constants[k] = v
    THEN (CHOOSE k \in 1..Len(f.constants) : f.constants[k] = v) - 1
    ELSE Len(f.constants)

AddConst(f, v) ==
    IF \E k \in 1..Len(f.constants) : f.constants[k] = v
    THEN f
    ELSE [f EXCEPT !.constants = Append(@, v)]

\* ------------------------------------------------------------------ Init
NoCall == [op |-> "none", name |-> "", arg |-> 0, ok |-> FALSE, reg |-> 0,
           dropped |-> {}]

Init ==
    /\ name_list_ = << >>
    /\ current_scope_ = NULL
    /\ scopes = << >>
    /\ funcs = << >>
    /\ func_ = NULL
    /\ names_register_ = << >>
    /\ stack = << >>
    /\ ndebug \in BOOLEAN
    /\ aborted = FALSE
    /\ nodes = 0
    /\ last = NoCall
    /\ open_len = << >>

InitScope == Init /\ ndebug = FALSE

\* ------------------------------------------- NameScope used on its own
\* A client declares a NameScope (with or without an owner) as a local.
\* Without an owner the constructor reads previous_->owner_, so a scope
\* exists already.
OpenScope ==
    \E owner \in OwnerPtrs \cup {NULL} :
        /\ ~aborted
        /\ Len(scopes) < MaxScopes
        /\ owner = NULL => current_scope_ # NULL
        /\ scopes' = Append(scopes,
                            NewScope(name_list_, current_scope_, scopes, owner))
        /\ current_scope_' = Len(scopes) + 1
        /\ open_len' = Append(open_len, Len(name_list_))
        /\ last' = [NoCall EXCEPT !.op = "open", !.arg = owner]
        /\ UNCHANGED << name_list_, visitVars >>

\* A client declares a NameScope without an owner while no scope exists:
\* line 45 reads owner_ through the null previous_.  The behaviour is
\* undefined: the process faults, or the read yields some pointer and the
\* constructor finishes with it as the owner.
OpenScopeNoPrevious ==
    /\ ~aborted
    /\ current_scope_ = NULL
    /\ last' = [NoCall EXCEPT !.op = "open", !.arg = NULL]
    /\ \/ /\ aborted' = TRUE
          /\ UNCHANGED << name_list_, current_scope_, scopes, open_len, funcs,
                          func_, names_register_, stack, ndebug, nodes >>
       \/ \E read \in OwnerPtrs \cup {NULL} :
             /\ scopes' = Append(scopes,
                                 [previous_ |-> current_scope_,
                                  start_ |-> Len(name_list_),
                                  owner_ |-> read])
             /\ current_scope_' = Len(scopes) + 1
             /\ open_len' = Append(open_len, Len(name_list_))
             /\ UNCHANGED << name_list_, visitVars >>

\* current_scope_->AddScopeName(name, &reg) with reg = r on entry.
Declare ==
    \E name \in Names, r \in 0..MaxReg :
        /\ ~aborted
        /\ current_scope_ # NULL
        /\ Len(name_list_) < MaxTable
        /\ LET res == AddScopeName(name_list_, scopes[current_scope_], name, r)
           IN  /\ name_list_' = res.list
               /\ last' = [op |-> "declare", name |-> name, arg |-> r,
                           ok |-> res.ok, reg |-> res.reg, dropped |-> {}]
        /\ UNCHANGED << current_scope_, scopes, open_len, visitVars >>

\* The innermost NameScope leaves its C++ scope.
CloseScope ==
    /\ ~aborted
    /\ current_scope_ # NULL
    /\ name_list_' = DestroyScope(name_list_, scopes[current_scope_])
    /\ current_scope_' = scopes[current_scope_].previous_
    /\ scopes' = SubSeq(scopes, 1, Len(scopes) - 1)
    /\ open_len' = SubSeq(open_len, 1, Len(open_len) - 1)
    /\ last' = [NoCall EXCEPT
                  !.op = "close",
                  !.dropped = { name_list_[i].name_ :
                                  i \in (Len(name_list_') + 1)..Len(name_list_) }]
    /\ UNCHANGED visitVars

NextScope == OpenScope \/ Declare \/ CloseScope

SpecScope == InitScope /\ [][NextScope]_vars

\* NameScope driven by any client, one that opens a first scope without an
\* owner included.
NextScopeAny == NextScope \/ OpenScopeNoPrevious

SpecScopeAny == InitScope /\ [][NextScopeAny]_vars

\* ------------------------------------------------- CodeGenerateVisitor
\* A frame of the Visit recursion: the handler, where it stands, its locals
\* (reg, reg_count, the loop position i), its node's children (names of a
\* NameList; exps of an ExpressionList, or the caller and arguments of a
\* call), and, for the record, what held when the handler was entered: the
\* current function, its register top and instruction count, the length of
\* the name table, and the innermost scope.
Frame(kind, pc, reg) ==
    [kind |-> kind, pc |-> pc, reg |-> reg, reg_count |-> 0,
     names |-> << >>, exps |-> << >>, i |-> 0,
     entry |-> [func |-> func_,
                next |-> IF func_ = NULL THEN 0
                         ELSE funcs[func_].next_register,
                ins |-> IF func_ = NULL THEN 0
                        ELSE Len(funcs[func_].instructions),
                table |-> Len(name_list_),
                scope |-> current_scope_]]

Top == stack[Len(stack)]
At(kind, pc) == stack # << >> /\ Top.kind = kind /\ Top.pc = pc

\* Where a handler continues when the child it visited returns.
Resume(f) ==
    CASE f.kind = "Chunk" -> [f EXCEPT !.pc = "end"]
      [] f.kind = "Block" -> f
      [] f.kind = "Local" -> [f EXCEPT !.pc = "moves"]
      [] f.kind = "Call" -> [f EXCEPT !.pc = IF @ = "caller" THEN "args"
                                               ELSE "call"]
      [] f.kind = "ExpList" -> [f EXCEPT !.pc = "loop", !.reg = @ + 1,
                                         !.i = @ + 1]
      [] OTHER -> f

\* The stack once the handler on top of it gets its child back.
Resumed(stk) ==
    IF stk = << >> THEN stk ELSE [stk EXCEPT ![Len(stk)] = Resume(@)]

\* The stack after the innermost handler returns to its caller.
Return(stk) == Resumed(SubSeq(stk, 1, Len(stk) - 1))

Push(stk, f) == Append(stk, f)

\* The current function object, and the function table with it replaced.
Cur == funcs[func_]
WithCur(f) == [funcs EXCEPT ![func_] = f]

\* The nodes of a list of expressions: a call counts itself and its caller.
Cost(exps) == Len(exps) + Cardinality({ k \in 1..Len(exps) : exps[k] = CallExp })

\* How many more nodes the walk may be given.
Room == MaxNodes - nodes

\* The walk stands between two statements of a block.
StatementPoint == ~aborted /\ At("Block", "stmts")

\* An expression is due: the callee of a call, or the next expression of an
\* expression list; e is the node.
ExpressionPoint(e) ==
    /\ ~aborted
    /\ \/ At("Call", "caller") /\ e = Top.exps[1]
       \/ At("ExpList", "exp") /\ e = Top.exps[Top.i + 1]

\* Visit(Chunk *): lines 194-197, up to the Accept of the block.  The chunk
\* is the top-level one, or a function literal met where a statement is.
VisitChunk ==
    /\ ~aborted
    /\ Room >= 1
    /\ stack = << >> \/ StatementPoint
    /\ funcs' = Append(funcs, SetSuperior(NewFunction, func_))
    /\ func_' = Len(funcs) + 1
    /\ stack' = Push(stack, Frame("Chunk", "block", Len(funcs) + 1))
    /\ nodes' = nodes + 1
    /\ UNCHANGED << name_list_, current_scope_, scopes, open_len,
                    names_register_, ndebug, aborted, last >>

\* Visit(Chunk *): the block has returned, and so does the handler.
ChunkReturn ==
    /\ ~aborted
    /\ At("Chunk", "end")
    /\ stack' = Return(stack)
    /\ UNCHANGED << name_list_, current_scope_, scopes, open_len, funcs, func_,
                    names_register_, ndebug, aborted, nodes, last >>

\* Visit(Block *): lines 204-205, for a chunk's block or a block that is a
\* statement of another block.
VisitBlock ==
    /\ ~aborted
    /\ \/ At("Chunk", "block") /\ nodes' = nodes
       \/ StatementPoint /\ Room >= 1 /\ nodes' = nodes + 1
    /\ scopes' = Append(scopes,
                        NewScope(name_list_, current_scope_, scopes, func_))
    /\ current_scope_' = Len(scopes) + 1
    /\ open_len' = Append(open_len, Len(name_list_))
    /\ stack' = Push(stack, Frame("Block", "stmts", GetNextRegister(Cur)))
    /\ UNCHANGED << name_list_, funcs, func_, names_register_, ndebug,
                    aborted, last >>

\* Visit(Block *) lines 216-217: the register top goes back to reg and a
\* SetTop says so.
BlockNoRestore(f, reg) == AddInstruction(f, ACode(OpType_SetTop, reg))

BlockRestoreAtTop(f, reg) ==
    AddInstruction(SetNextRegister(f, reg),
                   ACode(OpType_SetTop, GetNextRegister(f)))

BlockRestore(f, reg) ==
    AddInstruction(SetNextRegister(f, reg), ACode(OpType_SetTop, reg))

\* Visit(Block *): lines 216-217, after the last statement.
BlockEnd ==
    /\ ~aborted
    /\ At("Block", "stmts")
    /\ funcs' = WithCur(BlockRestore(Cur, Top.reg))
    /\ stack' = [stack EXCEPT ![Len(stack)].pc = "close"]
    /\ UNCHANGED << name_list_, current_scope_, scopes, open_len, func_,
                    names_register_, ndebug, aborted, nodes, last >>

\* Visit(Block *): line 218, the local NameScope current is destroyed and
\* the handler returns.
BlockReturn ==
    /\ ~aborted
    /\ At("Block", "close")
    /\ UNCHANGED funcs
    /\ name_list_' = DestroyScope(name_list_, scopes[current_scope_])
    /\ current_scope_' = scopes[current_scope_].previous_
    /\ scopes' = SubSeq(scopes, 1, Len(scopes) - 1)
    /\ open_len' = SubSeq(open_len, 1, Len(open_len) - 1)
    /\ stack' = Return(stack)
    /\ UNCHANGED << func_, names_register_, ndebug, aborted, nodes, last >>

\* Visit(LocalNameListStatement *): line 223, the Accept of the name list.
\* The statement has one name or more, and any number of initializers
\* (none: exp_list_ is null).
VisitLocalNameListStatement ==
    \E names \in SeqsOf(Names, 1, Room - 1) :
      \E exps \in SeqsOf(Exps, 0, Room - 1 - Len(names)) :
        /\ StatementPoint
        /\ 1 + Len(names) + Cost(exps) <= Room
        /\ stack' = Push(stack, [Frame("Local", "names", 0) EXCEPT
                                   !.names = names, !.exps = exps])
        /\ nodes' = nodes + 1 + Len(names) + Cost(exps)
        /\ UNCHANGED << name_list_, current_scope_, scopes, open_len, funcs,
                        func_, names_register_, ndebug, aborted, last >>

\* NameReg.
NameReg(reg, t) == [register_ |-> reg, token_ |-> t]

\* Visit(NameList *) lines 277-278 on the function object: a register is
\* taken when AddScopeName said the name is new.
NameListAllocaAlways(f, ok) == AllocaNextRegister(f)

NameListAlloca(f, ok) == IF ok THEN AllocaNextRegister(f) ELSE f

\* Visit(NameList *): one turn of the loop, lines 272-281, for name
\* Top.names[Top.i + 1].
VisitNameList ==
    /\ ~aborted
    /\ At("Local", "names")
    /\ Top.i < Len(Top.names)
    /\ LET n == Top.names[Top.i + 1]
           res == AddScopeName(name_list_, scopes[current_scope_], n,
                               GetNextRegister(Cur))
       IN  /\ name_list_' = res.list
           /\ funcs' = WithCur(NameListAlloca(Cur, res.ok))
           /\ names_register_' = Append(names_register_, NameReg(res.reg, n))
    /\ stack' = [stack EXCEPT ![Len(stack)].i = @ + 1]
    /\ UNCHANGED << current_scope_, scopes, open_len, func_, ndebug, aborted,
                    nodes, last >>

\* Visit(LocalNameListStatement *): lines 225-230, once the name list is
\* done: reg and reg_count are read, and the initializers are visited.
LocalExpList ==
    /\ ~aborted
    /\ At("Local", "names")
    /\ Top.i = Len(Top.names)
    /\ LET f == [Top EXCEPT !.reg = GetNextRegister(Cur),
                            !.reg_count = GetRegisterCount(Cur)]
           rest == SubSeq(stack, 1, Len(stack) - 1)
       IN  stack' =
             IF Top.exps = << >>
             THEN Append(rest, [f EXCEPT !.pc = "moves"])
             ELSE Append(Append(rest, [f EXCEPT !.pc = "exps"]),
                         [Frame("ExpList", "loop", GetNextRegister(Cur))
                            EXCEPT !.exps = Top.exps])
    /\ UNCHANGED << name_list_, current_scope_, scopes, open_len, funcs, func_,
                    names_register_, ndebug, aborted, nodes, last >>

\* The Move instructions of lines 236-243: names_register_[k] takes the
\* value of register reg + k - 1.
LocalMovesSwapped(regs, reg) ==
    [k \in 1..Len(regs) |->
        ABCode(OpType_Move, regs[k].register_, reg + Len(regs) - k)]

LocalMoves(regs, reg) ==
    [k \in 1..Len(regs) |->
        ABCode(OpType_Move, regs[k].register_, reg + k - 1)]

\* Visit(LocalNameListStatement *) lines 232-249 on the function object.
LocalFinish(f, regs, reg, reg_count) ==
    LET counted == SetRegisterCount(f, reg_count + Len(regs))
        moved == [counted EXCEPT
                    !.instructions = @ \o LocalMoves(regs, reg)]
    IN  AddInstruction(SetNextRegister(moved, reg), ACode(OpType_SetTop, reg))

\* Visit(LocalNameListStatement *): lines 232-249, and the return.
LocalReturn ==
    /\ ~aborted
    /\ At("Local", "moves")
    /\ funcs' = WithCur(LocalFinish(Cur, names_register_, Top.reg,
                                    Top.reg_count))
    /\ names_register_' = << >>
    /\ stack' = Return(stack)
    /\ UNCHANGED << name_list_, current_scope_, scopes, open_len, func_,
                    ndebug, aborted, nodes, last >>

\* Visit(ExpressionList *) lines 310-311 on the function object.
ExpListNoReset(f, reg) == AddInstruction(f, ACode(OpType_SetTop, reg))

ExpListSetTop(f, reg) ==
    AddInstruction(SetNextRegister(f, reg), ACode(OpType_SetTop, reg))

\* Visit(ExpressionList *): lines 310-311, before expression i is visited.
ExpListLoop ==
    /\ ~aborted
    /\ At("ExpList", "loop")
    /\ Top.i < Len(Top.exps)
    /\ funcs' = WithCur(ExpListSetTop(Cur, Top.reg))
    /\ stack' = [stack EXCEPT ![Len(stack)].pc = "exp"]
    /\ UNCHANGED << name_list_, current_scope_, scopes, open_len, func_,
                    names_register_, ndebug, aborted, nodes, last >>

\* Visit(ExpressionList *): the loop is over.
ExpListReturn ==
    /\ ~aborted
    /\ At("ExpList", "loop")
    /\ Top.i = Len(Top.exps)
    /\ stack' = Return(stack)
    /\ UNCHANGED << name_list_, current_scope_, scopes, open_len, funcs, func_,
                    names_register_, ndebug, aborted, nodes, last >>

\* Visit(Terminator *) on the function object, for a constant of pool
\* index `index`: lines 264-266.
TerminatorLoad(f, index) ==
    AddInstruction(AllocaNextRegister(f),
                   ABCode(OpType_LoadConst, GetNextRegister(f), index))

\* Visit(Terminator *), which visits no child and so has no frame: a
\* number or a string is interned and loaded, and the caller goes on.  For
\* any other token the assert of line 262 ends the process, unless NDEBUG
\* compiles it away and index stays 0.
VisitTerminator ==
    \E t \in TermTokens :
        /\ ExpressionPoint(t)
        /\ IF t.token_ \in {Token_Number, Token_String}
           THEN /\ funcs' = WithCur(TerminatorLoad(AddConst(Cur, t),
                                                   ConstIndex(Cur, t)))
                /\ stack' = Resumed(stack)
                /\ UNCHANGED aborted
           ELSE IF ndebug
           THEN /\ funcs' = WithCur(TerminatorLoad(Cur, 0))
                /\ stack' = Resumed(stack)
                /\ UNCHANGED aborted
           ELSE /\ aborted' = TRUE
                /\ UNCHANGED << funcs, stack >>
        /\ UNCHANGED << name_list_, current_scope_, scopes, open_len, func_,
                        names_register_, ndebug, nodes, last >>

\* Visit(NormalFuncCall *): line 286 and the Accept of the caller, for a
\* call that is a statement or an expression.  exps[1] is the caller, the
\* rest are the arguments (none: args_ is null).
VisitNormalFuncCall ==
    \E caller \in Exps :
      \E args \in SeqsOf(Exps, 0, Room) :
        LET paid == IF StatementPoint THEN 0 ELSE 2
            cost == 1 + Cost(<< caller >>) + Cost(args) - paid
        IN  /\ StatementPoint \/ ExpressionPoint(CallExp)
            /\ cost <= Room
            /\ stack' = Push(stack,
                             [Frame("Call", "caller", GetNextRegister(Cur))
                                EXCEPT !.exps = << caller >> \o args])
            /\ nodes' = nodes + cost
            /\ UNCHANGED << name_list_, current_scope_, scopes, open_len,
                            funcs, func_, names_register_, ndebug, aborted,
                            last >>

\* Visit(NormalFuncCall *) lines 292-293 on the function object: the
\* arguments start in the register after the caller's.
CallArgBaseNoAdvance(f, reg) ==
    AddInstruction(SetNextRegister(f, reg), ACode(OpType_SetTop, reg + 1))

CallArgBase(f, reg) ==
    AddInstruction(SetNextRegister(f, reg + 1), ACode(OpType_SetTop, reg + 1))

\* Visit(NormalFuncCall *) line 299 on the function object.
CallEmitAtTop(f, reg) ==
    AddInstruction(f, ACode(OpType_Call, GetNextRegister(f)))

CallEmit(f, reg) == AddInstruction(f, ACode(OpType_Call, reg))

\* Visit(NormalFuncCall *): lines 292-297, once the caller is loaded.
CallArgs ==
    /\ ~aborted
    /\ At("Call", "args")
    /\ funcs' = WithCur(CallArgBase(Cur, Top.reg))
    /\ LET rest == SubSeq(stack, 1, Len(stack) - 1)
           args == Tail(Top.exps)
       IN  stack' =
             IF args = << >>
             THEN Append(rest, [Top EXCEPT !.pc = "call"])
             ELSE Append(Append(rest, [Top EXCEPT !.pc = "arglist"]),
                         [Frame("ExpList", "loop", Top.reg + 1)
                            EXCEPT !.exps = args,
                                   !.entry.next = Top.reg + 1,
                                   !.entry.ins = @ + 1])
    /\ UNCHANGED << name_list_, current_scope_, scopes, open_len, func_,
                    names_register_, ndebug, aborted, nodes, last >>

\* Visit(NormalFuncCall *): line 299, and the return.
CallReturn ==
    /\ ~aborted
    /\ At("Call", "call")
    /\ funcs' = WithCur(CallEmit(Cur, Top.reg))
    /\ stack' = Return(stack)
    /\ UNCHANGED << name_list_, current_scope_, scopes, open_len, func_,
                    names_register_, ndebug, aborted, nodes, last >>

Next ==
    \/ VisitChunk \/ ChunkReturn
    \/ VisitBlock \/ BlockEnd \/ BlockReturn
    \/ VisitLocalNameListStatement \/ VisitNameList \/ LocalExpList
    \/ LocalReturn
    \/ ExpListLoop \/ ExpListReturn
    \/ VisitTerminator
    \/ VisitNormalFuncCall \/ CallArgs \/ CallReturn

Spec == Init /\ [][Next]_vars

\* ------------------------------------------------------------ properties
\* The names bound by table entries lo+1 .. hi (1-based).
BoundIn(list, lo, hi) == { list[i].name_ : i \in (lo + 1)..hi }

\* The table entries (1-based) scope k itself declared: from its start_ up
\* to the start_ of the next inner scope, or the end of the table.
OwnEnd(k) == IF k < Len(scopes) THEN scopes[k + 1].start_ ELSE Len(name_list_)
OwnNames(k) == BoundIn(name_list_, scopes[k].start_, OwnEnd(k))

Resolve(n) == GetBlongsToScope(name_list_, scopes, current_scope_, n)
ResolveNext(n) == GetBlongsToScope(name_list_', scopes', current_scope_', n)

\* C1: when the innermost scope is closed, the name table is as long as it
\* was just before that scope was opened, and every name that was declared
\* only inside the closed scope resolves to absent from the new innermost
\* scope.
C1_ScopeTruncation ==
    [][ Len(scopes') < Len(scopes) =>
          /\ Len(name_list_') = open_len[Len(scopes)]
          /\ \A n \in Names :
                ( /\ n \in BoundIn(name_list_, open_len[Len(scopes)],
                                   Len(name_list_))
                  /\ n \notin BoundIn(name_list_, 0, open_len[Len(scopes)]) )
                => ResolveNext(n).scope = NULL ]_vars

\* C1 witness: a scope that declared a name not bound outside it has just
\* been closed, leaving an enclosing scope with a binding of its own.
C1_Witness ==
    /\ last.op = "close"
    /\ current_scope_ # NULL
    /\ Len(name_list_) > 0
    /\ \E n \in last.dropped : n \notin BoundIn(name_list_, 0, Len(name_list_))

\* C2: declaring a name that the innermost scope already binds returns
\* false, leaves the table as it was, and reports the register the scope
\* binds the name to, whatever register the caller proposed.
C2_Redeclare ==
    [][ ( /\ last'.op = "declare"
          /\ current_scope_ # NULL
          /\ last'.name \in BoundIn(name_list_, scopes[current_scope_].start_,
                                    Len(name_list_)) )
        => /\ last'.ok = FALSE
           /\ name_list_' = name_list_
           /\ \E i \in (scopes[current_scope_].start_ + 1)..Len(name_list_) :
                 /\ name_list_[i].name_ = last'.name
                 /\ name_list_[i].register_ = last'.reg
                 /\ \A j \in (scopes[current_scope_].start_ + 1)..(i - 1) :
                       name_list_[j].name_ # last'.name ]_vars

\* C2 witness: a second declare of a name, proposing another register than
\* the one the scope binds it to, has returned false.
C2_Witness ==
    /\ last.op = "declare"
    /\ last.ok = FALSE
    /\ last.reg # last.arg

\* C8: resolving from the innermost scope finds no scope exactly when no
\* open scope binds the name, and a scope it finds binds the name itself.
C8_ResolveFaithful ==
    \A n \in Names :
        /\ Resolve(n).scope = NULL
             <=> ~(\E k \in 1..Len(scopes) : n \in OwnNames(k))
        /\ Resolve(n).scope # NULL => n \in OwnNames(Resolve(n).scope)

\* C8 witness: three scopes of two owners are open; one name is found in the
\* outermost scope, the other in none.
C8_Witness ==
    /\ Len(scopes) = 3
    /\ scopes[1].owner_ # scopes[3].owner_
    /\ Resolve("a").scope = 1
    /\ Resolve("b").scope = NULL

\* C9: a name declared in a scope owned by one function, and not declared
\* again in any scope inside it, resolves from an innermost scope owned by
\* another function to the declaring scope and the declaring scope's owner.
C9_OuterOwner ==
    \A n \in Names : \A k \in 1..Len(scopes) :
        ( /\ current_scope_ # NULL
          /\ scopes[k].owner_ # scopes[current_scope_].owner_
          /\ n \in OwnNames(k)
          /\ \A j \in (k + 1)..Len(scopes) : n \notin OwnNames(j) )
        => /\ Resolve(n).scope = k
           /\ Resolve(n).func = scopes[k].owner_

\* C9 witness: a name declared by the outer function's scope is resolved
\* from a scope of a nested function that declares another name.
C9_Witness ==
    /\ Len(scopes) >= 2
    /\ scopes[1].owner_ # scopes[current_scope_].owner_
    /\ "a" \in OwnNames(1)
    /\ "b" \in OwnNames(current_scope_)
    /\ Resolve("a") = [scope |-> 1, func |-> scopes[1].owner_]

\* The handler on top of the stack returns in this step.
Returns(kind, pc) == At(kind, pc) /\ Len(stack') < Len(stack)

\* C3: when the lowering of a chunk is over, the current function is again
\* the one that was current just before the chunk was entered.
C3_ContextRestored ==
    [][ Returns("Chunk", "end") => func_' = Top.entry.func ]_vars

\* C4: the register count (high-water mark) of a function never decreases.
C4_HighWaterMonotone ==
    [][ \A f \in 1..Len(funcs) :
          funcs'[f].register_count >= funcs[f].register_count ]_vars

\* C5: when a block whose statements left the current function the same
\* (local declarations, calls, nested blocks) has been lowered, the next
\* register of that function is what it was just before the block.
C5_BlockRollback ==
    [][ (Returns("Block", "close") /\ func_ = Top.entry.func)
        => funcs'[func_].next_register = Top.entry.next ]_vars

IsMove(ins) == ins.op = OpType_Move
IsLoadConst(ins) == ins.op = OpType_LoadConst
Last(seq) == seq[Len(seq)]

\* C5 witness: inside a block that holds a local in register 0, a nested
\* block that declared its own local in register 1 has been lowered and the
\* register top is back at 1.
C5_Witness ==
    /\ At("Block", "stmts")
    /\ func_ = Top.entry.func
    /\ Len(scopes) = 1
    /\ Cur.next_register = 1
    /\ Cur.register_count >= 2
    /\ Cur.instructions # << >>
    /\ Last(Cur.instructions) = ACode(OpType_SetTop, 1)
    /\ \E k \in 1..Len(Cur.instructions) :
          IsMove(Cur.instructions[k]) /\ Cur.instructions[k].a = 1

\* The owner of the scope that declared table entry i (1-based).
EntryOwner(i) ==
    LET k == CHOOSE k \in 1..Len(scopes) :
                scopes[k].start_ < i /\ i <= OwnEnd(k)
    IN  scopes[k].owner_

\* C6: between statements, two different names in scopes of the same
\* function never share a register.
C6_NoRegisterCollision ==
    At("Block", "stmts") =>
        \A i, j \in 1..Len(name_list_) :
            ( /\ name_list_[i].name_ # name_list_[j].name_
              /\ EntryOwner(i) = EntryOwner(j) )
            => name_list_[i].register_ # name_list_[j].register_

\* The registers instruction ins reads, and the one it writes.
Sources(ins) ==
    CASE ins.op = OpType_Move -> {ins.b}
      [] ins.op = OpType_Call -> {ins.a}
      [] OTHER -> {}

Targets(ins) ==
    CASE ins.op = OpType_SetTop -> {}
      [] OTHER -> {ins.a}

\* C7: in every function, a register an instruction reads is the target of
\* an earlier instruction of that function.
C7_DefinedBeforeUse ==
    \A f \in 1..Len(funcs) :
        \A k \in 1..Len(funcs[f].instructions) :
            \A r \in Sources(funcs[f].instructions[k]) :
                \E j \in 1..(k - 1) : r \in Targets(funcs[f].instructions[j])

\* The instructions the handler on top of the stack will have emitted when
\* this step is done.
Emitted ==
    SubSeq(funcs'[func_].instructions, Top.entry.ins + 1,
           Len(funcs'[func_].instructions))

IsLiteral(e) == e.token_ \in {Token_Number, Token_String}

\* The local statement on top of the stack declares k different names, new
\* to the innermost scope, with k literals.
PlainLocal ==
    /\ Len(Top.exps) = Len(Top.names)
    /\ \A i, j \in 1..Len(Top.names) : i # j => Top.names[i] # Top.names[j]
    /\ \A i \in 1..Len(Top.names) :
          /\ IsLiteral(Top.exps[i])
          /\ Top.names[i] \notin BoundIn(name_list_,
                                         scopes[current_scope_].start_,
                                         Top.entry.table)

\* C10: local n1,...,nk = c1,...,ck with the register top at T binds ni to
\* T+i-1, has every ci in the constant pool, loads ci into T+k+i-1 in source
\* order, then moves T+k+i-1 into T+i-1 in declaration order, and leaves
\* every ni resolving to its register in the innermost scope.
C10_LocalLowering ==
    [][ (Returns("Local", "moves") /\ PlainLocal) =>
          LET k == Len(Top.names)
              T == Top.entry.next
              f == funcs'[func_]
              loads == SelectSeq(Emitted, IsLoadConst)
              moves == SelectSeq(Emitted, IsMove)
          IN  /\ Len(loads) = k
              /\ Len(moves) = k
              /\ \A i \in 1..k :
                    /\ loads[i].a = T + k + i - 1
                    /\ loads[i].b + 1 \in 1..Len(f.constants)
                    /\ f.constants[loads[i].b + 1] = Top.exps[i]
                    /\ moves[i] = ABCode(OpType_Move, T + i - 1, T + k + i - 1)
                    /\ ResolveNext(Top.names[i]).scope = current_scope_
                    /\ IsBelongsToScopeReg(name_list_', scopes'[current_scope_'],
                                           Top.names[i], -1) = T + i - 1
              /\ \A x, y \in 1..Len(Emitted) :
                    (IsLoadConst(Emitted[x]) /\ IsMove(Emitted[y])) => x < y
              /\ \A x \in 1..Len(Emitted) :
                    ~IsLoadConst(Emitted[x]) /\ ~IsMove(Emitted[x])
                    => Emitted[x].op = OpType_SetTop ]_vars

\* C10 witness: local a, b = 1, "s" has been lowered at register top 0.
C10_Witness ==
    /\ At("Block", "stmts")
    /\ name_list_ = << ScopeName("a", 0), ScopeName("b", 1) >>
    /\ Cur.constants = << [token_ |-> Token_Number, value |-> "1"],
                          [token_ |-> Token_String, value |-> "s"] >>
    /\ Cur.instructions =
         << ACode(OpType_SetTop, 2), ABCode(OpType_LoadConst, 2, 0),
            ACode(OpType_SetTop, 3), ABCode(OpType_LoadConst, 3, 1),
            ABCode(OpType_Move, 0, 2), ABCode(OpType_Move, 1, 3),
            ACode(OpType_SetTop, 2) >>

\* The call on top of the stack has one argument, a literal.
OneLiteralArg == Len(Top.exps) = 2 /\ IsLiteral(Top.exps[2])

\* The block on top of the stack reaches its end: lines 216-217 are run.
BlockEnds == At("Block", "stmts") /\ stack' = [stack EXCEPT ![Len(stack)].pc = "close"]

\* The block on top of the stack has had a call lowered in it, in the
\* function that was current when the block was entered.
BlockHasCall ==
    /\ func_ = Top.entry.func
    /\ \E k \in (Top.entry.ins + 1)..Len(Cur.instructions) :
          Cur.instructions[k].op = OpType_Call

\* C11: a call with one literal argument, entered at register top R, emits
\* in this order an instruction of the callee that targets R, SetTop R+1, a
\* LoadConst of the argument into R+1, and last Call R; and a block that
\* holds a call ends by emitting SetTop with its entry register top, which
\* is the next register from then on.
C11_CallLowering ==
    [][ /\ (Returns("Call", "call") /\ OneLiteralArg) =>
              LET R == Top.entry.next
                  f == funcs'[func_]
              IN  \E p, q, r \in 1..Len(Emitted) :
                     /\ p < q /\ q < r /\ r < Len(Emitted)
                     /\ R \in Targets(Emitted[p])
                     /\ Emitted[q] = ACode(OpType_SetTop, R + 1)
                     /\ IsLoadConst(Emitted[r])
                     /\ Emitted[r].a = R + 1
                     /\ Emitted[r].b + 1 \in 1..Len(f.constants)
                     /\ f.constants[Emitted[r].b + 1] = Top.exps[2]
                     /\ Last(Emitted) = ACode(OpType_Call, R)
        /\ (BlockEnds /\ BlockHasCall) =>
              /\ Last(funcs'[func_].instructions)
                    = ACode(OpType_SetTop, Top.entry.next)
              /\ funcs'[func_].next_register = Top.entry.next ]_vars

\* C11 witness: the block  local a  "s"(1)  has reached its end: the call was
\* lowered at register top 1 and the block has put the top back to 0.
C11_Witness ==
    /\ At("Block", "close")
    /\ Cur.next_register = 0
    /\ Cur.instructions =
         << ABCode(OpType_Move, 0, 1), ACode(OpType_SetTop, 1),
            ABCode(OpType_LoadConst, 1, 0), ACode(OpType_SetTop, 2),
            ACode(OpType_SetTop, 2), ABCode(OpType_LoadConst, 2, 1),
            ACode(OpType_Call, 1), ACode(OpType_SetTop, 0) >>

\* The register of the first of table entries lo+1 .. hi that binds n.
RegIn(list, lo, hi, n) ==
    LET first == CHOOSE i \in (lo + 1)..hi :
                    /\ list[i].name_ = n
                    /\ \A j \in (lo + 1)..(i - 1) : list[j].name_ # n
    IN  list[first].register_

\* The innermost of the scopes 1..top that itself declared n.
Binder(top, n) ==
    CHOOSE k \in 1..top :
        /\ n \in OwnNames(k)
        /\ \A j \in (k + 1)..top : n \notin OwnNames(j)

\* C12: declaring in the innermost scope S2 a name n that resolves to an
\* enclosing scope S1 returns true; as long as S2 is open and nothing inside
\* it declares n again, n resolves to S2 and S2's owner; and when S2 is
\* closed n resolves to S1 and S1's owner again, bound in S1 to the register
\* it had there before.
C12_Shadowing ==
    [][ \A n \in Names :
          /\ ( /\ last'.op = "declare"
                /\ last'.name = n
                /\ Resolve(n).scope \notin {NULL, current_scope_} )
              => /\ last'.ok = TRUE
                 /\ ResolveNext(n) = [scope |-> current_scope_,
                                      func |-> scopes[current_scope_].owner_]
          /\ \A k \in 1..Len(scopes) :
                ( /\ n \in OwnNames(k)
                  /\ \A j \in (k + 1)..Len(scopes) : n \notin OwnNames(j) )
                => Resolve(n) = [scope |-> k, func |-> scopes[k].owner_]
          /\ ( /\ Len(scopes') < Len(scopes)
                /\ n \in OwnNames(Len(scopes))
                /\ \E k \in 1..(Len(scopes) - 1) : n \in OwnNames(k) )
              => LET S1 == Binder(Len(scopes) - 1, n)
                     r1 == RegIn(name_list_, scopes[S1].start_, OwnEnd(S1), n)
                     end == IF S1 < Len(scopes') THEN scopes'[S1 + 1].start_
                            ELSE Len(name_list_')
                 IN  /\ ResolveNext(n) = [scope |-> S1,
                                          func |-> scopes[S1].owner_]
                     /\ scopes'[S1] = scopes[S1]
                     /\ RegIn(name_list_', scopes'[S1].start_, end, n) = r1
        ]_vars

\* C12 witness: a scope that declared "a" again has just been closed, and
\* "a" resolves to the outermost scope, which binds it to register 1, with
\* that scope's owner, while the innermost scope has another owner.
C12_Witness ==
    /\ last.op = "close"
    /\ "a" \in last.dropped
    /\ Len(scopes) = 2
    /\ scopes[1].owner_ # scopes[2].owner_
    /\ name_list_ = << ScopeName("a", 1) >>
    /\ Resolve("a") = [scope |-> 1, func |-> scopes[1].owner_]

\* Visit(NameList *) takes one turn of its loop in this step.
NameListTurn ==
    /\ At("Local", "names")
    /\ Len(stack') = Len(stack)
    /\ stack'[Len(stack)].i = Top.i + 1

\* C13: for each identifier n of a name list, in source order: when the
\* innermost scope does not bind n, n is bound there to the next register
\* as it is at that moment and the next register goes up by one; when it
\* does, the next register and the name table stay as they are and the
\* register n is bound to is used; either way exactly one (register, token)
\* pair is appended to the transient list.
C13_NameListBinding ==
    [][ NameListTurn =>
          LET n == Top.names[Top.i + 1]
              lo == scopes[current_scope_].start_
              hi == Len(name_list_)
              T == Cur.next_register
          IN  /\ n \notin BoundIn(name_list_, lo, hi) =>
                    /\ name_list_' = Append(name_list_, ScopeName(n, T))
                    /\ funcs'[func_].next_register = T + 1
                    /\ names_register_' = Append(names_register_, NameReg(T, n))
              /\ n \in BoundIn(name_list_, lo, hi) =>
                    /\ name_list_' = name_list_
                    /\ funcs'[func_].next_register = T
                    /\ names_register_' =
                          Append(names_register_,
                                 NameReg(RegIn(name_list_, lo, hi, n), n))
              /\ [k \in 1..Len(names_register_') |-> names_register_'[k].token_]
                    = SubSeq(Top.names, 1, Top.i + 1) ]_vars

\* C13 witness: after  local a  the name list of  local b, a  is done: b is
\* new and took register 1, a was bound already and keeps register 0, and
\* the register top went up once.
C13_Witness ==
    /\ At("Local", "names")
    /\ Top.i = 2
    /\ name_list_ = << ScopeName("a", 0), ScopeName("b", 1) >>
    /\ names_register_ = << NameReg(1, "b"), NameReg(0, "a") >>
    /\ Cur.next_register = 2

\* Visit(ExpressionList *) runs lines 310-311 for its next expression in
\* this step.
ExpListTurn ==
    /\ At("ExpList", "loop")
    /\ Len(stack') = Len(stack)
    /\ stack'[Len(stack)].pc = "exp"

\* The expression due in the expression list on top of the stack is a
\* terminator, lowered in this step.
ExpListTerminator ==
    /\ At("ExpList", "exp")
    /\ Len(stack') = Len(stack)
    /\ stack'[Len(stack)].pc = "loop"

\* The expression due in an expression list is a call, which returns in
\* this step.
ExpListCall ==
    /\ Returns("Call", "call")
    /\ Len(stack) >= 2
    /\ stack[Len(stack) - 1].kind = "ExpList"

\* C14: in an expression list entered at register top B, just before
\* expression i (from 0) is lowered the next register is set to B+i and
\* SetTop B+i is emitted, and the result of expression i is put in register
\* B+i: a literal is loaded there, a call is addressed there, whatever
\* registers the expressions before it took.
C14_ExpressionSlots ==
    [][ /\ ExpListTurn =>
              /\ funcs'[func_].next_register = Top.entry.next + Top.i
              /\ Last(funcs'[func_].instructions)
                    = ACode(OpType_SetTop, Top.entry.next + Top.i)
        /\ ExpListTerminator =>
              /\ IsLoadConst(Last(funcs'[func_].instructions))
              /\ Last(funcs'[func_].instructions).a = Top.entry.next + Top.i
        /\ ExpListCall =>
              LET list == stack[Len(stack) - 1]
              IN  Last(funcs'[func_].instructions)
                    = ACode(OpType_Call, list.entry.next + list.i) ]_vars

\* C14 witness: the initializers of  local a = "s"(1), 1  are lowered: the
\* list was entered at top 1, the call took registers 1 and 2, and the
\* second initializer is loaded into register 2 all the same.
C14_Witness ==
    /\ At("ExpList", "loop")
    /\ Top.i = 2
    /\ Top.entry.next = 1
    /\ Cur.instructions =
         << ACode(OpType_SetTop, 1), ABCode(OpType_LoadConst, 1, 0),
            ACode(OpType_SetTop, 2), ACode(OpType_SetTop, 2),
            ABCode(OpType_LoadConst, 2, 1), ACode(OpType_Call, 1),
            ACode(OpType_SetTop, 2), ABCode(OpType_LoadConst, 2, 1) >>

\* The names the local statement on top of the stack has newly bound.
NewlyBound == Len(name_list_) - Top.entry.table

\* The name list of the local statement on top of the stack is done and
\* its initializers, if any, come next.
NameListDone ==
    /\ At("Local", "names")
    /\ Top.i = Len(Top.names)
    /\ stack' # stack

\* C15: when a local statement has been lowered the next register is what
\* it was between the name list and the initializers, which is the top
\* before the statement plus the number of names newly bound, whatever the
\* initializers allocated; the transient name-register list is empty; and
\* the register of every name the statement declared is below the top.
C15_LocalRollback ==
    [][ /\ NameListDone =>
              Cur.next_register = Top.entry.next + NewlyBound
        /\ Returns("Local", "moves") =>
              /\ funcs'[func_].next_register = Top.entry.next + NewlyBound
              /\ names_register_' = << >>
              /\ \A k \in 1..Len(names_register_) :
                    names_register_[k].register_
                      < funcs'[func_].next_register ]_vars

\* C16: the last instruction a block emits is SetTop with the register top
\* read at its entry; it is emitted when no statement is left to lower and
\* while the block's scope is still the innermost one; the scope is closed
\* only after it, with nothing emitted in between.
C16_BlockEpilogue ==
    [][ /\ BlockEnds =>
              /\ Last(funcs'[func_].instructions)
                    = ACode(OpType_SetTop, Top.entry.next)
              /\ current_scope_' = current_scope_
              /\ scopes' = scopes
              /\ name_list_' = name_list_
              /\ current_scope_ # Top.entry.scope
              /\ scopes[current_scope_].previous_ = Top.entry.scope
        /\ At("Block", "close") => Returns("Block", "close")
        /\ Returns("Block", "close") =>
              /\ funcs' = funcs
              /\ Last(Cur.instructions) = ACode(OpType_SetTop, Top.entry.next)
              /\ Len(scopes') = Len(scopes) - 1
              /\ current_scope_' = Top.entry.scope
              /\ Len(name_list_') = Top.entry.table ]_vars

\* C16 witness: in  local a  do local b end  the inner block has emitted
\* its SetTop 1 and its scope, with b in it, is still open.
C16_Witness ==
    /\ At("Block", "close")
    /\ Len(scopes) = 2
    /\ name_list_ = << ScopeName("a", 0), ScopeName("b", 1) >>
    /\ Cur.next_register = 1
    /\ Last(Cur.instructions) = ACode(OpType_SetTop, 1)

\* A NameScope is constructed in this step, or faults in its constructor.
OpenStep ==
    /\ last'.op = "open"
    /\ Len(scopes') > Len(scopes) \/ (aborted' /\ ~aborted)

\* C17: a scope opened without an owner while no scope exists fails and
\* produces no scope; any other scope opened has the owner it was given, or
\* without one the owner of the scope that was innermost; so every open
\* scope has an owner.
C17_OwnerRequired ==
    [][ /\ (OpenStep /\ last'.arg = NULL /\ current_scope_ = NULL) =>
              /\ aborted'
              /\ scopes' = scopes
        /\ (OpenStep /\ ~(last'.arg = NULL /\ current_scope_ = NULL)) =>
              /\ ~aborted'
              /\ Len(scopes') = Len(scopes) + 1
              /\ Last(scopes').owner_ =
                    IF last'.arg # NULL THEN last'.arg
                    ELSE scopes[current_scope_].owner_
        /\ \A k \in 1..Len(scopes') : scopes'[k].owner_ # NULL ]_vars

\* The expression that is due where the walk stands.
DueExp == IF At("Call", "caller") THEN Top.exps[1] ELSE Top.exps[Top.i + 1]

\* Visit(Terminator *) runs in this step.
TerminatorStep ==
    /\ ~aborted
    /\ At("Call", "caller") \/ At("ExpList", "exp")
    /\ DueExp \in TermTokens
    /\ stack' # stack \/ funcs' # funcs \/ aborted'

\* C18: lowering a terminator whose token is neither a number nor a string
\* ends the process with no constant interned, no register allocated and
\* no instruction emitted; lowering a number or a string interns that one
\* constant, advances the next register by one, and emits one LoadConst
\* whose target is the next register as it was and whose constant operand
\* is the index of the interned constant.
C18_TerminatorLowering ==
    [][ TerminatorStep =>
          LET t == DueExp
              f == Cur
              g == funcs'[func_]
          IN  IF ~IsLiteral(t)
              THEN aborted' /\ funcs' = funcs
              ELSE /\ ~aborted'
                   /\ g.constants = f.constants
                        \/ g.constants = Append(f.constants, t)
                   /\ g.next_register = f.next_register + 1
                   /\ Len(g.instructions) = Len(f.instructions) + 1
                   /\ SubSeq(g.instructions, 1, Len(f.instructions))
                        = f.instructions
                   /\ IsLoadConst(Last(g.instructions))
                   /\ Last(g.instructions).a = f.next_register
                   /\ Last(g.instructions).b + 1 \in 1..Len(g.constants)
                   /\ g.constants[Last(g.instructions).b + 1] = t ]_vars

\* The arguments of the call on top of the stack are all literals.
LiteralArgs == \A k \in 2..Len(Top.exps) : IsLiteral(Top.exps[k])

\* A call statement is entered in this step, right after another call
\* statement of the same block.
NextCallStatement ==
    /\ StatementPoint
    /\ Cur.instructions # << >>
    /\ Last(Cur.instructions).op = OpType_Call
    /\ Len(stack') = Len(stack) + 1
    /\ Last(stack').kind = "Call"

\* C19: a call entered at register top R with k literal arguments (k = 0
\* without an argument list) leaves the next register at R+1+k; and a call
\* statement that follows another in a block has its callee in a higher
\* register than the one before.
C19_CallKeepsTop ==
    [][ /\ (Returns("Call", "call") /\ LiteralArgs) =>
              funcs'[func_].next_register
                = Top.entry.next + 1 + (Len(Top.exps) - 1)
        /\ NextCallStatement =>
              Last(stack').reg > Last(Cur.instructions).a ]_vars

\* C19 witness: after  "s"(1)  "s"()  in a block entered at top 0: the first
\* call was addressed at 0, the second at 2, and the top is at 3.
C19_Witness ==
    /\ At("Block", "stmts")
    /\ Cur.next_register = 3
    /\ Cur.instructions =
         << ABCode(OpType_LoadConst, 0, 0), ACode(OpType_SetTop, 1),
            ACode(OpType_SetTop, 1), ABCode(OpType_LoadConst, 1, 1),
            ACode(OpType_Call, 0),
            ABCode(OpType_LoadConst, 2, 0), ACode(OpType_SetTop, 3),
            ACode(OpType_Call, 2) >>

\* C20: for every open scope S, innermost or not, and every name n,
\* IsBelongsToScope(n) on S is true exactly when S itself declared n; and
\* GetBlongsToScope started from any open scope finds only a scope that
\* itself declared n.
C20_OwnNamesOnly ==
    \A k \in 1..Len(scopes) : \A n \in Names :
        /\ IsBelongsToScope(name_list_, scopes[k], n) <=> n \in OwnNames(k)
        /\ LET found == GetBlongsToScope(name_list_, scopes, k, n).scope
           IN  found # NULL => n \in OwnNames(found)

====
